---- MODULE Spec2Model ----
(***************************************************************************)
(* FileCodeBox: the redemption / expiry engine and the per-origin rate     *)
(* limiters of main.py.  Every request handler is a coroutine.  A handler  *)
(* is cut where another coroutine can observe or change what it goes on to *)
(* use: between its read of the store (the select, or get_code) and its    *)
(* write to it (the update or the insert, with its commit).  The steps on  *)
(* either side of that cut touch only the handler's own locals, so every   *)
(* interleaving of the finer steps is equivalent to one of these.          *)
(* The admin delete is cut the same way.  The expiry reaper, whose code is  *)
(* in core.utils, takes one step for the query of a cycle and one for each *)
(* record of it.                                                           *)
(* Time is a discrete clock; one tick is the unit of every duration.       *)
(***************************************************************************)
EXTENDS Integers, Sequences, FiniteSets, TLC

\* ---------------------------------------------------------------- bounds
MaxTime == 2          \* the clock stops here
MaxRecords == 2       \* rows the codes table can hold
MaxUses == 2          \* deliveries of one record after which no new redeem starts

\* --------------------------------------------------------- configuration
Day == 1              \* datetime.timedelta(days=1), in ticks
MAX_DAYS == 1         \* settings.MAX_DAYS
FILE_SIZE_LIMIT == 1  \* settings.FILE_SIZE_LIMIT
ERROR_COUNT == 2      \* settings.ERROR_COUNT: attempts that ban an origin
ERROR_MINUTE == 1     \* settings.ERROR_MINUTE: length of a ban, in ticks
UPLOAD_COUNT == 1     \* uploads that ban an origin in the upload limiter
UPLOAD_MINUTE == 1    \* length of an upload ban, in ticks
LimitWindow == 2      \* ticks after which an idle entry stops counting

Slots == {1, 2}                       \* requests in flight at once
Origins == {"ip1", "ip2"}             \* client addresses
CodeSpace == {"c1", "c2"}             \* pickup codes get_code can draw
Styles == {"1", "2", "0"}             \* count-limited, day-limited, any other
Values == (-1) .. (MAX_DAYS + 1)      \* the `value` form field
Payloads == {"text", "file", "bigfile"}

VARIABLES now, codes, hist, blobs, errLimit, upLimit, req, last, sweep

vars == <<now, codes, hist, blobs, errLimit, upLimit, req, last, sweep>>

\* ------------------------------------------------------------ the store
\* A row of the codes table; id 0 stands for "no row" (None).
NoRec == [id |-> 0, code |-> "", type |-> "", count |-> 0, exp_time |-> 0]

Ids == DOMAIN codes

Live == {i \in Ids : codes[i].id # 0}

\* select(Codes).where(Codes.code == code) ... .scalars().first()
first_by_code(code) ==
    IF \E i \in Live : codes[i].code = code
    THEN codes[CHOOSE i \in Live : codes[i].code = code
                                   /\ \A j \in Live : codes[j].code = code => i <= j]
    ELSE NoRec

\* A store without the constraint: every insert goes through.
unique_off(code) == TRUE

\* The unique constraint on Codes.code: an insert of a code some live row
\* already carries is refused by the store.
unique_ok(code) == \A i \in Live : codes[i].code # code

\* get_code(s): a code drawn from the code space that no row carries now.
free_codes == {c \in CodeSpace : \A i \in Live : codes[i].code # c}

\* ---------------------------------------------------------- the limiters
NoEntry == [attempts |-> 0, window_start |-> 0, ban_until |-> 0]

\* is_banned(origin): the entry is inside its ban window.
is_banned(lim, ip, t) == t < lim[ip].ban_until

\* The entry still counts: it has attempts and its window has not run out.
in_window(e, t) == e.attempts > 0 /\ t < e.window_start + LimitWindow

\* A limiter that counts the attempts of a banned origin as well.
add_ip_while_banned(lim, ip, t, threshold, minutes) ==
    LET e == lim[ip]
        n == (IF in_window(e, t) THEN e.attempts ELSE 0) + 1
        ws == IF in_window(e, t) THEN e.window_start ELSE t
    IN  IF n >= threshold
        THEN [lim EXCEPT ![ip] = [attempts |-> 0, window_start |-> t,
                                  ban_until |-> t + minutes]]
        ELSE [lim EXCEPT ![ip] = [attempts |-> n, window_start |-> ws,
                                  ban_until |-> e.ban_until]]

\* add_ip(ip) / record_attempt(origin): count one attempt, in the running
\* window or as the first of a fresh one; at the threshold the origin is
\* banned and the counter goes back to zero.  An attempt that arrives during
\* a ban is not counted and moves neither timestamp.
add_ip(lim, ip, t, threshold, minutes) ==
    LET e == lim[ip]
        n == (IF in_window(e, t) THEN e.attempts ELSE 0) + 1
        ws == IF in_window(e, t) THEN e.window_start ELSE t
    IN  IF is_banned(lim, ip, t) THEN lim
        ELSE IF n >= threshold
             THEN [lim EXCEPT ![ip] = [attempts |-> 0, window_start |-> t,
                                       ban_until |-> t + minutes]]
             ELSE [lim EXCEPT ![ip] = [attempts |-> n, window_start |-> ws,
                                       ban_until |-> e.ban_until]]

\* ----------------------------------------------------------- a request
\* The locals of one handler call.
Idle == [op |-> "none", pc |-> "idle", ip |-> "", code |-> "", info |-> NoRec,
         style |-> "", value |-> 0, exp_time |-> 0, exp_count |-> 0, type |-> ""]

\* The response sent most recently; a share refused for its policy shows
\* the style and value it was refused for.
Response(res) == [res |-> res, style |-> "", value |-> 0]

ShareResponse(res, style, value) == [res |-> res, style |-> style, value |-> value]

Init ==
    /\ now = 0
    /\ codes = <<>>
    /\ hist = <<>>
    /\ blobs = {}
    /\ errLimit = [o \in Origins |-> NoEntry]
    /\ upLimit = [o \in Origins |-> NoEntry]
    /\ req = [q \in Slots |-> Idle]
    /\ sweep = {}
    /\ last = Response("none")

\* datetime.datetime.now() moves on.
Tick ==
    /\ now < MaxTime
    /\ now' = now + 1
    /\ UNCHANGED <<codes, hist, blobs, errLimit, upLimit, req, last, sweep>>

\* ------------------------------------------------------ POST / (redeem)
\* A handler without the dependency: every origin enters.
error_gate_open(ip, t) == FALSE

\* ip: str = Depends(error_ip_limit): a banned origin never enters the handler.
error_gate(ip, t) == is_banned(errLimit, ip, t)

\* A not-found branch that charges the origin twice.
error_charge_twice(ip, t) ==
    add_ip(add_ip(errLimit, ip, t, ERROR_COUNT, ERROR_MINUTE), ip, t,
           ERROR_COUNT, ERROR_MINUTE)

\* error_ip_limit.add_ip(ip) of the not-found branch.
error_charge(ip, t) == add_ip(errLimit, ip, t, ERROR_COUNT, ERROR_MINUTE)

\* A check that takes every count below one for used up.
unredeemable_nonpositive(info, t) == info.exp_time < t \/ info.count <= 0

\* if info.exp_time < datetime.datetime.now() or info.count == 0
unredeemable(info, t) == info.exp_time < t \/ info.count = 0

\* .values(count=info.count - 1)
count_after(info) == info.count - 1

\* The dependency, then
\* info = (await s.execute(select(Codes).where(Codes.code == code))).scalars().first()
\* No new redeem of a record that can still be redeemed starts past MaxUses.
index_lookup(q, ip, code) ==
    LET rec == first_by_code(code) IN
    /\ req[q].pc = "idle"
    /\ IF rec.id = 0 THEN TRUE
       ELSE IF unredeemable(rec, now) THEN TRUE
       ELSE hist[rec.id].redeemed < MaxUses
    /\ IF error_gate(ip, now)
       THEN /\ last' = Response("RateLimited")
            /\ req' = req
       ELSE /\ last' = last
            /\ req' = [req EXCEPT ![q] = [Idle EXCEPT !.op = "redeem", !.pc = "check",
                                                      !.ip = ip, !.info = rec]]
    /\ UNCHANGED <<now, sweep, codes, hist, blobs, errLimit, upLimit>>

\* A handler that runs its update before it tests the record.
raise_expired_after_update(r) ==
    /\ last' = Response("Expired")
    /\ codes' = IF r.info.id \in Live
                THEN [codes EXCEPT ![r.info.id].count = count_after(r.info)]
                ELSE codes
    /\ UNCHANGED <<hist, errLimit>>

\* raise HTTPException(status_code=404, detail="取件码已失效，请联系寄件人"):
\* one answer for both causes, before the update.
raise_expired(r) ==
    /\ last' = Response("Expired")
    /\ UNCHANGED <<codes, hist, errLimit>>

\* if not info: add_ip, 404.  if info.exp_time < now or info.count == 0: 404.
\* update(Codes).where(Codes.id == info.id).values(count=info.count - 1),
\* commit, and the payload descriptor is returned.
index_redeem(q) ==
    LET r == req[q]
        i == r.info.id
    IN
    /\ r.op = "redeem"
    /\ r.pc = "check"
    /\ IF i = 0
       THEN /\ errLimit' = error_charge(r.ip, now)
            /\ last' = Response("NotFound")
            /\ UNCHANGED <<codes, hist>>
       ELSE IF unredeemable(r.info, now)
       THEN raise_expired(r)
       ELSE /\ codes' = IF i \in Live
                        THEN [codes EXCEPT ![i].count = count_after(r.info)]
                        ELSE codes
            /\ hist' = [hist EXCEPT ![i].redeemed = @ + 1]
            /\ last' = Response("Redeemed")
            /\ errLimit' = errLimit
    /\ req' = [req EXCEPT ![q] = Idle]
    /\ UNCHANGED <<now, sweep, blobs, upLimit>>

\* -------------------------------------------------- GET /select (fetch)
get_file_lookup(q, ip, code) ==
    /\ req[q].pc = "idle"
    /\ IF error_gate(ip, now)
       THEN /\ last' = Response("RateLimited")
            /\ req' = req
       ELSE /\ last' = last
            /\ req' = [req EXCEPT ![q] = [Idle EXCEPT !.op = "select", !.pc = "check",
                                              !.ip = ip, !.info = first_by_code(code)]]
    /\ UNCHANGED <<now, sweep, codes, hist, blobs, errLimit, upLimit>>

\* if not info: add_ip, raise 404; otherwise the text or the file is returned.
get_file_return(q) ==
    LET r == req[q] IN
    /\ r.op = "select"
    /\ r.pc = "check"
    /\ IF r.info.id = 0
       THEN /\ errLimit' = add_ip(errLimit, r.ip, now, ERROR_COUNT, ERROR_MINUTE)
            /\ last' = Response("NotFound")
       ELSE /\ errLimit' = errLimit
            /\ last' = Response("Fetched")
    /\ req' = [req EXCEPT ![q] = Idle]
    /\ UNCHANGED <<now, sweep, codes, hist, blobs, upLimit>>

\* ------------------------------------------------------- POST /share
\* A value check of style '1' that lets the value 0 through.
policy_rejects_negative(style, value) ==
    \/ style = "2" /\ value > MAX_DAYS
    \/ style = "1" /\ value < 0

\* The style / value branches of share: a 400, or exp_time and exp_count.
policy_rejects(style, value) ==
    \/ style = "2" /\ value > MAX_DAYS
    \/ style = "1" /\ value < 1

policy_exp_time(style, value, t) == IF style = "2" THEN t + value * Day ELSE t + Day

policy_exp_count(style, value) == IF style = "1" THEN value ELSE -1

\* size = await storage.get_size(file); if size > settings.FILE_SIZE_LIMIT
payload_size(payload) ==
    IF payload = "bigfile" THEN FILE_SIZE_LIMIT + 1 ELSE FILE_SIZE_LIMIT

\* A share that is refused charges the upload limiter all the same.
share_reject_charged(ip, res) ==
    /\ last' = res
    /\ req' = req
    /\ upLimit' = add_ip(upLimit, ip, now, UPLOAD_COUNT, UPLOAD_MINUTE)
    /\ UNCHANGED <<codes, hist, blobs>>

\* raise HTTPException(...): the handler ends before s.add, add_task and
\* upload_ip_limit.add_ip.
share_reject(ip, res) ==
    /\ last' = res
    /\ req' = req
    /\ UNCHANGED <<codes, hist, blobs, upLimit>>

\* The upload_ip_limit dependency; code = await get_code(s); the style /
\* value branches; a file is measured against FILE_SIZE_LIMIT and its write
\* is added to the background tasks, a text is its own payload.
share_prepare(q, ip, style, value, payload) ==
    /\ req[q].pc = "idle"
    /\ Len(codes) < MaxRecords
    /\ IF is_banned(upLimit, ip, now)
       THEN share_reject(ip, Response("RateLimited"))
       ELSE IF free_codes = {}
       THEN share_reject(ip, Response("NoCode"))
       ELSE IF policy_rejects(style, value)
       THEN share_reject(ip, ShareResponse("InvalidSharePolicy", style, value))
       ELSE IF payload # "text" /\ payload_size(payload) > FILE_SIZE_LIMIT
       THEN share_reject(ip, Response("PayloadTooLarge"))
       ELSE /\ last' = last
            /\ \E c \in free_codes :
                 req' = [req EXCEPT ![q] =
                           [Idle EXCEPT !.op = "share", !.pc = "commit", !.ip = ip,
                                        !.code = c, !.style = style, !.value = value,
                                        !.exp_time = policy_exp_time(style, value, now),
                                        !.exp_count = policy_exp_count(style, value),
                                        !.type = IF payload = "text" THEN "text"
                                                 ELSE "file"]]
            /\ UNCHANGED <<codes, hist, blobs, upLimit>>
    /\ UNCHANGED <<now, sweep, errLimit>>

\* A share that does not count its upload.
upload_charge_none(ip, t) == upLimit

\* upload_ip_limit.add_ip(ip) after the commit.
upload_charge(ip, t) == add_ip(upLimit, ip, t, UPLOAD_COUNT, UPLOAD_MINUTE)

\* s.add(Codes(...)); await s.commit(); upload_ip_limit.add_ip(ip); the
\* response carries the background task that writes the blob.  A code some
\* row already carries fails the commit, and nothing after it runs.
share_commit(q) ==
    LET r == req[q]
        i == Len(codes) + 1
    IN
    /\ r.op = "share"
    /\ r.pc = "commit"
    /\ Len(codes) < MaxRecords
    /\ IF unique_ok(r.code)
       THEN /\ codes' = Append(codes, [id |-> i, code |-> r.code, type |-> r.type,
                                       count |-> r.exp_count, exp_time |-> r.exp_time])
            /\ hist' = Append(hist, [count0 |-> r.exp_count, redeemed |-> 0])
            /\ upLimit' = upload_charge(r.ip, now)
            /\ blobs' = IF r.type = "file" THEN blobs \cup {i} ELSE blobs
            /\ last' = Response("Shared")
       ELSE /\ last' = Response("DuplicateCode")
            /\ UNCHANGED <<codes, hist, upLimit, blobs>>
    /\ req' = [req EXCEPT ![q] = Idle]
    /\ UNCHANGED <<now, sweep, errLimit>>

\* ------------------------------------------------ DELETE /admin (delete)
\* A delete that clears the whole table.
delete_all(i) == [j \in DOMAIN codes |-> NoRec]

\* await s.delete(file); await s.commit(): the row of that id goes.
delete_row(i) == [codes EXCEPT ![i] = NoRec]

\* file = (await s.execute(select(Codes).where(Codes.code == code))).scalars().first()
admin_delete_lookup(q, code) ==
    /\ req[q].pc = "idle"
    /\ req' = [req EXCEPT ![q] = [Idle EXCEPT !.op = "delete", !.pc = "check",
                                              !.info = first_by_code(code)]]
    /\ UNCHANGED <<now, sweep, codes, hist, blobs, errLimit, upLimit, last>>

\* if file and file.type != 'text': await storage.delete_file(file.text);
\* await s.delete(file); await s.commit().  With no record of that code
\* s.delete(None) raises and the request ends in an error.
admin_delete_commit(q) ==
    LET r == req[q]
        i == r.info.id
    IN
    /\ r.op = "delete"
    /\ r.pc = "check"
    /\ IF i = 0
       THEN /\ last' = Response("DeleteFailed")
            /\ UNCHANGED <<codes, blobs>>
       ELSE /\ blobs' = IF r.info.type # "text" THEN blobs \ {i} ELSE blobs
            /\ codes' = IF i \in Live THEN delete_row(i) ELSE codes
            /\ last' = Response("Deleted")
    /\ req' = [req EXCEPT ![q] = Idle]
    /\ UNCHANGED <<now, sweep, hist, errLimit, upLimit>>

\* ------------------------------------------- delete_expire_files (reaper)
\* The query of a sweep: the records of which the Active invariant is false.
reap_due(r, t) == r.exp_time < t \/ ~(r.count = -1 \/ r.count > 0)

\* A reaper that gives up a record whose blob the storage did not delete.
reap_record_strict(i, ok) ==
    IF codes[i].type # "text" /\ ~ok THEN codes ELSE [codes EXCEPT ![i] = NoRec]

\* The record of a sweep is deleted, whether or not its blob was.
reap_record(i, ok) == [codes EXCEPT ![i] = NoRec]

\* A cycle begins: the reaper wakes and queries the records that are due.
reaper_sweep ==
    /\ sweep = {}
    /\ sweep' = {i \in Live : reap_due(codes[i], now)}
    /\ UNCHANGED <<now, codes, hist, blobs, errLimit, upLimit, req, last>>

\* The next record of the cycle: the storage is asked to delete the blob of
\* a record that is not a text, which may fail (ok = FALSE), and the record
\* is deleted; after the last one the reaper sleeps.
reaper_delete(ok) ==
    /\ sweep # {}
    /\ LET i == CHOOSE k \in sweep : \A j \in sweep : k <= j IN
       /\ blobs' = IF i \in Live /\ codes[i].type # "text" /\ ok
                   THEN blobs \ {i} ELSE blobs
       /\ codes' = IF i \in Live THEN reap_record(i, ok) ELSE codes
       /\ sweep' = sweep \ {i}
    /\ UNCHANGED <<now, hist, errLimit, upLimit, req, last>>

\* ------------------------------------------------------ specifications
Next ==
    \/ Tick
    \/ \E q \in Slots, ip \in Origins, code \in CodeSpace : index_lookup(q, ip, code)
    \/ \E q \in Slots : index_redeem(q)
    \/ \E q \in Slots, ip \in Origins, code \in CodeSpace : get_file_lookup(q, ip, code)
    \/ \E q \in Slots : get_file_return(q)
    \/ \E q \in Slots, ip \in Origins, style \in Styles, value \in Values,
          payload \in Payloads : share_prepare(q, ip, style, value, payload)
    \/ \E q \in Slots : share_commit(q)
    \/ \E q \in Slots, code \in CodeSpace : admin_delete_lookup(q, code)
    \/ \E q \in Slots : admin_delete_commit(q)
    \/ reaper_sweep
    \/ \E ok \in BOOLEAN : reaper_delete(ok)

\* The whole service.
Spec == Init /\ [][Next]_vars

\* The share handler alone, one origin with two uploads in flight: what
\* share creates, refuses and inserts.  The first upload draws every style,
\* value and payload; the one racing it is of value 1 and within the size limit.
NextShare ==
    \/ Tick
    \/ \E style \in Styles, value \in Values, payload \in Payloads :
           share_prepare(1, "ip1", style, value, payload)
    \/ \E style \in Styles, payload \in {"text", "file"} :
           share_prepare(2, "ip1", style, 1, payload)
    \/ \E q \in Slots : share_commit(q)

SpecShare == Init /\ [][NextShare]_vars

\* One origin shares one record, then redeems and fetches it with two
\* requests in flight: the life of a record.
NextRedeem ==
    \/ Tick
    \/ \E style \in Styles, value \in Values, payload \in {"text", "file"} :
           codes = <<>> /\ req[2].pc = "idle"
           /\ share_prepare(1, "ip1", style, value, payload)
    \/ share_commit(1)
    \/ \E q \in Slots, code \in CodeSpace : index_lookup(q, "ip1", code)
    \/ \E q \in Slots : index_redeem(q)
    \/ \E q \in Slots, code \in CodeSpace : get_file_lookup(q, "ip1", code)
    \/ \E q \in Slots : get_file_return(q)

SpecRedeem == Init /\ [][NextRedeem]_vars

\* Two origins; one of them shares a text for a single use, both redeem and
\* fetch by the code c1, which is or is not the code of that record: the
\* two limiters.
NextLimit ==
    \/ Tick
    \/ \E ip \in Origins :
           codes = <<>> /\ req[2].pc = "idle" /\ share_prepare(1, ip, "1", 1, "text")
    \/ share_commit(1)
    \/ \E q \in Slots, ip \in Origins : index_lookup(q, ip, "c1")
    \/ \E q \in Slots : index_redeem(q)
    \/ \E q \in Slots, ip \in Origins : get_file_lookup(q, ip, "c1")
    \/ \E q \in Slots : get_file_return(q)

SpecLimit == Init /\ [][NextLimit]_vars

\* The reaper beside the handlers: two origins share single-use records, one
\* after the other and while every record still expires within MaxTime; the
\* records that exist are redeemed, and the reaper sweeps; the storage may
\* fail any blob delete.
NextReap ==
    \/ Tick
    \/ \E ip \in Origins, payload \in {"text", "file"} :
           now + MAX_DAYS * Day < MaxTime /\ req[2].pc = "idle"
           /\ share_prepare(1, ip, "1", 1, payload)
    \/ share_commit(1)
    \/ \E i \in Live : index_lookup(2, "ip1", codes[i].code)
    \/ index_redeem(2)
    \/ reaper_sweep
    \/ \E ok \in BOOLEAN : reaper_delete(ok)

SpecReap == Init /\ [][NextReap]_vars

\* Time passes and the reaper's loop keeps running: it wakes after its
\* sleep and goes through the records of its query.
FairReap ==
    /\ SpecReap
    /\ WF_vars(Tick)
    /\ WF_vars(reaper_sweep)
    /\ WF_vars(\E ok \in BOOLEAN : reaper_delete(ok))

\* The admin beside the handlers: two origins share, one after the other,
\* and the codes are redeemed and deleted with two requests in flight.
NextAdmin ==
    \/ \E ip \in Origins, style \in {"1", "2"}, payload \in {"text", "file"} :
           req[2].pc = "idle" /\ share_prepare(1, ip, style, 1, payload)
    \/ share_commit(1)
    \/ \E q \in Slots, code \in CodeSpace : index_lookup(q, "ip1", code)
    \/ \E q \in Slots : index_redeem(q)
    \/ \E q \in Slots, code \in CodeSpace : admin_delete_lookup(q, code)
    \/ \E q \in Slots : admin_delete_commit(q)

SpecAdmin == Init /\ [][NextAdmin]_vars

\* ------------------------------------------------------------- claims
\* The Active invariant of a record at time t: exp_time has not passed and
\* the count is -1 (unlimited) or positive.
Active(r, t) == ~(r.exp_time < t) /\ (r.count = -1 \/ r.count > 0)

\* Slot q finishes a redeem of a record it found.
RedeemEnds(q) ==
    /\ req[q].op = "redeem"
    /\ req[q].pc = "check"
    /\ req'[q].pc = "idle"
    /\ req[q].info.id \in Live

\* C1: of the concurrent redeems of a record shared with count = 1 exactly
\* one succeeds: the record is never redeemed twice, its stored count is
\* never negative and is 0 once it was redeemed.
C1_OneUseOneRedeem ==
    \A i \in Live :
        hist[i].count0 = 1 =>
            /\ hist[i].redeemed <= 1
            /\ codes[i].count >= 0
            /\ hist[i].redeemed = 1 => codes[i].count = 0

C3_UnlimitedStaysMinusOne ==
    \A i \in Live : hist[i].count0 = -1 => codes[i].count = -1

\* C4: a redeem of a record shared with count = -1 succeeds whenever its
\* exp_time has not passed, however often it was redeemed before, and fails
\* as Expired whenever its exp_time has passed.
C4_UnlimitedUntilExpiry ==
    [][\A q \in Slots :
          (RedeemEnds(q) /\ hist[req[q].info.id].count0 = -1) =>
              IF codes[req[q].info.id].exp_time < now
              THEN last'.res = "Expired" /\ codes' = codes /\ hist' = hist
              ELSE last'.res = "Redeemed"
                   /\ hist'[req[q].info.id].redeemed = hist[req[q].info.id].redeemed + 1]_vars

\* An unlimited record was redeemed twice and a redeem after its exp_time
\* was refused.
C4_Witness ==
    \E i \in Live :
        /\ hist[i].count0 = -1
        /\ hist[i].redeemed >= 2
        /\ codes[i].exp_time < now
        /\ last.res = "Expired"

\* Slot q's share passes its checks and goes on to the insert.
SharePrepared(q) == req[q].pc = "idle" /\ req'[q].op = "share" /\ req'[q].pc = "commit"

\* Slot q's share inserts its record.
ShareStored(q) ==
    /\ req[q].op = "share"
    /\ req[q].pc = "commit"
    /\ req'[q].pc = "idle"
    /\ Len(codes') = Len(codes) + 1

\* C5: share computes the policy from style and value: count-limited with
\* value >= 1 gives count = value and exp_time = now + 1 day, day-limited
\* with value <= MAX_DAYS gives count = -1 and exp_time = now + value days,
\* any other style gives count = -1 and exp_time = now + 1 day; the record
\* inserted carries exactly these; and InvalidSharePolicy is the answer to
\* count-limited with value <= 0 and to day-limited with value > MAX_DAYS
\* and to nothing else.
C5_SharePolicy ==
    [][/\ \A q \in Slots :
            SharePrepared(q) =>
                LET r == req'[q] IN
                IF r.style = "1"
                THEN r.value >= 1 /\ r.exp_count = r.value /\ r.exp_time = now + Day
                ELSE IF r.style = "2"
                THEN /\ r.value <= MAX_DAYS
                     /\ r.exp_count = -1
                     /\ r.exp_time = now + r.value * Day
                ELSE r.exp_count = -1 /\ r.exp_time = now + Day
       /\ \A q \in Slots :
            ShareStored(q) =>
                /\ codes'[Len(codes')].count = req[q].exp_count
                /\ codes'[Len(codes')].exp_time = req[q].exp_time
       /\ (last' # last /\ last'.res = "InvalidSharePolicy") =>
              \/ last'.style = "1" /\ last'.value <= 0
              \/ last'.style = "2" /\ last'.value > MAX_DAYS]_vars

\* A count-limited record of two uses is stored with exp_time one day after
\* its share, a day-limited share is on its way to the insert, and a
\* day-limited share of MAX_DAYS + 1 days was refused.
C5_Witness ==
    /\ \E i \in Live : codes[i].count = 2 /\ codes[i].exp_time <= MaxTime + Day
    /\ \E q \in Slots : req[q].pc = "commit" /\ req[q].style = "2" /\ req[q].exp_count = -1
    /\ last = ShareResponse("InvalidSharePolicy", "2", MAX_DAYS + 1)

\* C6: a share refused as InvalidSharePolicy or PayloadTooLarge changes
\* nothing: no record is created, no blob write is scheduled, and the upload
\* limiter records no attempt.
C6_RejectedShareMutatesNothing ==
    [][(last' # last /\ last'.res \in {"InvalidSharePolicy", "PayloadTooLarge"}) =>
           /\ codes' = codes
           /\ blobs' = blobs
           /\ upLimit' = upLimit
           /\ errLimit' = errLimit
           /\ req' = req]_vars

\* A file over the size limit was refused while a record is stored and
\* another share is on its way to the insert.
C6_Witness ==
    /\ last.res = "PayloadTooLarge"
    /\ Len(codes) = 1
    /\ \E q \in Slots : req[q].pc = "commit"

\* C7: no two live records carry the same code, also when two shares that
\* drew the same code insert one after the other.
C7_CodesUnique ==
    \A i \in Live : \A j \in Live : codes[i].code = codes[j].code => i = j

\* Two shares drew the same code; the second insert was refused and the
\* first record is stored.
C7_Witness ==
    /\ last.res = "DuplicateCode"
    /\ Len(codes) >= 1

\* Slot q's redeem or fetch found no record and answers 404.
MissEnds(q) ==
    /\ req[q].op \in {"redeem", "select"}
    /\ req[q].pc = "check"
    /\ req'[q].pc = "idle"
    /\ req[q].info.id = 0

\* What one recorded attempt at time t does to the entry e of its origin:
\* nothing during a ban; the attempt that reaches the threshold inside the
\* window bans for `minutes`; any other attempt is counted, as attempt 1 of
\* a window starting at t when no window is running.
AttemptRule(e, e2, t, threshold, minutes) ==
    LET counted == IF e.attempts > 0 /\ t < e.window_start + LimitWindow
                   THEN e.attempts ELSE 0
    IN  IF t < e.ban_until THEN e2 = e
        ELSE IF counted + 1 = threshold
        THEN e2.attempts = 0 /\ e2.ban_until = t + minutes /\ t < e2.ban_until
        ELSE /\ e2.attempts = counted + 1
             /\ e2.window_start = (IF counted = 0 THEN t ELSE e.window_start)
             /\ e2.ban_until = e.ban_until

\* C8: for each limiter and each origin, the attempt that makes `threshold`
\* attempts within one window bans the origin for the ban duration and no
\* earlier attempt does; an attempt during the ban leaves the entry as it
\* is; the ban ends by time alone, and the next attempt recorded after it
\* is attempt 1 of a window that starts then.  Entries change only by
\* recorded attempts, and the counter stays below the threshold.
C8_LimiterWindowAndBan ==
    [][/\ \A q \in Slots :
            MissEnds(q) =>
                /\ AttemptRule(errLimit[req[q].ip], errLimit'[req[q].ip], now,
                               ERROR_COUNT, ERROR_MINUTE)
                /\ \A o \in Origins \ {req[q].ip} : errLimit'[o] = errLimit[o]
       /\ (\A q \in Slots : ~MissEnds(q)) => errLimit' = errLimit
       /\ \A q \in Slots :
            ShareStored(q) =>
                /\ AttemptRule(upLimit[req[q].ip], upLimit'[req[q].ip], now,
                               UPLOAD_COUNT, UPLOAD_MINUTE)
                /\ \A o \in Origins \ {req[q].ip} : upLimit'[o] = upLimit[o]
       /\ (\A q \in Slots : ~ShareStored(q)) => upLimit' = upLimit
       /\ \A o \in Origins :
            errLimit'[o].attempts < ERROR_COUNT /\ upLimit'[o].attempts < UPLOAD_COUNT]_vars

\* An origin was banned by the error limiter, its ban has run out, and its
\* next miss was counted as attempt 1 of a window that started after the ban.
C8_Witness ==
    \E o \in Origins :
        /\ errLimit[o].ban_until > 0
        /\ errLimit[o].ban_until <= now
        /\ errLimit[o].attempts = 1
        /\ errLimit[o].window_start >= errLimit[o].ban_until
        /\ last.res = "NotFound"

\* C9: a redeem or fetch that arrives from an origin the error limiter has
\* banned is answered RateLimited and never enters the handler: no request
\* of a banned origin starts its lookup, and the RateLimited answer leaves
\* records, deliveries, limiters and the requests under way as they were.
C9_BannedRedeemRejected ==
    [][/\ \A q \in Slots :
            (req[q].pc = "idle" /\ req'[q].op \in {"redeem", "select"}
                                /\ req'[q].pc = "check") =>
                ~(now < errLimit[req'[q].ip].ban_until)
       /\ (last' # last /\ last'.res = "RateLimited") =>
              /\ codes' = codes
              /\ hist' = hist
              /\ blobs' = blobs
              /\ errLimit' = errLimit
              /\ upLimit' = upLimit
              /\ req' = req]_vars

\* An origin is banned by the error limiter, a request of its was answered
\* RateLimited, and the one-use record is stored and not redeemed.
C9_Witness ==
    /\ last.res = "RateLimited"
    /\ \E o \in Origins : now < errLimit[o].ban_until
    /\ Len(codes) = 1
    /\ codes[1].count = 1
    /\ hist[1].redeemed = 0

\* C10: a redeem or fetch of a code no record carries answers NotFound,
\* hands the error limiter exactly one attempt of the requesting origin
\* (counted unless the origin was banned meanwhile), and leaves every
\* record and the upload limiter unchanged.
C10_NotFoundChargesOnce ==
    [][\A q \in Slots :
          MissEnds(q) =>
              /\ last'.res = "NotFound"
              /\ errLimit' = add_ip(errLimit, req[q].ip, now, ERROR_COUNT, ERROR_MINUTE)
              /\ ~(now < errLimit[req[q].ip].ban_until) =>
                     errLimit'[req[q].ip] # errLimit[req[q].ip]
              /\ codes' = codes
              /\ hist' = hist
              /\ upLimit' = upLimit]_vars

\* A miss was answered NotFound with a record stored: its origin has one
\* attempt on the error limiter.
C10_Witness ==
    /\ last.res = "NotFound"
    /\ Len(codes) = 1
    /\ \E o \in Origins : errLimit[o].attempts = 1 /\ errLimit[o].ban_until = 0

\* Slot q's redeem (POST /) answers: a 404 of either kind, or the payload.
RedeemFails(q) ==
    /\ req[q].op = "redeem"
    /\ req[q].pc = "check"
    /\ req'[q].pc = "idle"
    /\ last'.res \in {"NotFound", "Expired"}

\* C11: every failed redeem, NotFound or Expired, hands the error limiter
\* one attempt of the requesting origin.
C11_FailedRedeemCharged ==
    [][\A q \in Slots :
          RedeemFails(q) =>
              errLimit' = add_ip(errLimit, req[q].ip, now, ERROR_COUNT, ERROR_MINUTE)]_vars

\* C12: under a fair reaper loop every record of which the Active invariant
\* is false is eventually deleted, whatever the storage answers to the
\* deletes of blobs.
C12_ReaperDeletesInactive ==
    \A i \in 1 .. MaxRecords :
        (i \in Live /\ ~Active(codes[i], now)) ~> (i \in Ids /\ i \notin Live)

\* Two records were deleted by the reaper and the blob of one of them is
\* still in the storage: its delete had failed.
C12_Witness ==
    /\ Len(codes) = 2
    /\ Live = {}
    /\ blobs # {}
    /\ sweep = {}

\* Slot q's redeem or fetch of a record that is in the store returns its
\* text or file.
Delivers(q) ==
    /\ req[q].op \in {"redeem", "select"}
    /\ req[q].pc = "check"
    /\ req'[q].pc = "idle"
    /\ req[q].info.id \in Live
    /\ last'.res \in {"Redeemed", "Fetched"}

\* C13: neither POST / nor GET /select returns the text or file of a record
\* that is in the store and not Active.
C13_NoPayloadUnlessActive ==
    [][\A q \in Slots :
          Delivers(q) => Active(codes[req[q].info.id], now)]_vars

\* C14: the stored count of a record never increases, so a record whose
\* count has reached 0 stays at 0.
C14_CountNeverIncreases ==
    [][\A i \in Live :
          codes'[i].id # 0 => codes'[i].count <= codes[i].count]_vars

\* Slot q's redeem of a record that is in the store succeeds.
RedeemSucceeds(q) == RedeemEnds(q) /\ last'.res = "Redeemed"

\* C15: a successful redeem changes the count of the redeemed record and
\* nothing else in the store or the limiters, and the count of a
\* count-limited record drops by exactly 1.
C15_RedeemFrame ==
    [][\A q \in Slots :
          RedeemSucceeds(q) =>
              LET i == req[q].info.id IN
              /\ \A j \in Live \ {i} : codes'[j] = codes[j]
              /\ codes'[i] = [codes[i] EXCEPT !.count = codes'[i].count]
              /\ hist[i].count0 # -1 => codes'[i].count = codes[i].count - 1
              /\ errLimit' = errLimit
              /\ upLimit' = upLimit
              /\ blobs' = blobs]_vars

\* C16: a redeem that fails as Expired leaves every record as it is, its
\* count included, and the answer is the same one whether the record read
\* is past its exp_time or has count 0.
C16_ExpiredLeavesRecord ==
    [][\A q \in Slots :
          /\ (RedeemEnds(q) /\ last'.res = "Expired") =>
                 codes' = codes /\ hist' = hist /\ last' = Response("Expired")
          /\ (RedeemEnds(q) /\ (req[q].info.exp_time < now \/ req[q].info.count = 0)) =>
                 last' = Response("Expired")]_vars

\* A record used up but not past its exp_time was refused as Expired and
\* still has count 0.
C16_Witness ==
    \E i \in Live :
        /\ codes[i].count = 0
        /\ ~(codes[i].exp_time < now)
        /\ hist[i].redeemed = hist[i].count0
        /\ last.res = "Expired"

\* C17: every record share creates is Active when it is created: the
\* exp_time share computes for an accepted request is strictly later than
\* the time of the request and the count is -1 or at least 1, and the record
\* inserted carries these values.
C17_CreatedActive ==
    [][\A q \in Slots :
          /\ SharePrepared(q) =>
                 /\ req'[q].exp_time > now
                 /\ req'[q].exp_count = -1 \/ req'[q].exp_count >= 1
          /\ ShareStored(q) =>
                 /\ codes'[Len(codes')].exp_time = req[q].exp_time
                 /\ codes'[Len(codes')].count = req[q].exp_count]_vars

\* Slot q takes a step of a redeem or a fetch.
RedeemStep(q) ==
    /\ req'[q] # req[q]
    /\ req[q].op \in {"redeem", "select"} \/ req'[q].op \in {"redeem", "select"}

\* Slot q takes a step of a share.
ShareStep(q) ==
    /\ req'[q] # req[q]
    /\ req[q].op = "share" \/ req'[q].op = "share"

\* C18: the two limiters are independent: a redeem or a fetch never changes
\* the upload limiter and changes the error limiter only by recording the
\* attempt of a miss; a share never changes the error limiter and changes
\* the upload limiter only by the one attempt of a share that was stored.
C18_LimitersIndependent ==
    [][/\ \A q \in Slots :
            RedeemStep(q) =>
                /\ upLimit' = upLimit
                /\ errLimit' # errLimit => MissEnds(q)
       /\ \A q \in Slots :
            ShareStep(q) =>
                /\ errLimit' = errLimit
                /\ upLimit' = IF ShareStored(q)
                              THEN add_ip(upLimit, req[q].ip, now, UPLOAD_COUNT, UPLOAD_MINUTE)
                              ELSE upLimit
       /\ \A q \in Slots :
            ShareStored(q) => upLimit'[req[q].ip] # upLimit[req[q].ip]]_vars

\* One origin has stored a share and counts on the upload limiter alone,
\* the other has missed a code and counts on the error limiter alone.
C18_Witness ==
    \E o \in Origins : \E p \in Origins :
        /\ upLimit[o] # NoEntry
        /\ errLimit[o] = NoEntry
        /\ errLimit[p].attempts = 1
        /\ upLimit[p] = NoEntry

\* Slot q's admin delete runs its delete and commit.
AdminDeletes(q) ==
    /\ req[q].op = "delete"
    /\ req[q].pc = "check"
    /\ req'[q].pc = "idle"

====
